---- MODULE Spec2Model ----
(***************************************************************************)
(* A model of two services of reth:                                        *)
(*   - PayloadBuilderService (crates/payload/builder/src/service.rs)       *)
(*   - EthRequestHandler     (crates/net/network/src/eth_requests.rs)      *)
(* Each service is a single cooperative task.  Its poll function is        *)
(* modelled in small steps (one step per channel poll, per job poll, per   *)
(* loop iteration) so that producers may enqueue between any two steps.    *)
(***************************************************************************)
EXTENDS Integers, Sequences, FiniteSets, TLC

(***************************************************************************)
(* Bounds of the model.                                                    *)
(***************************************************************************)
\* Commands the clients send to the builder service over a whole run.
MaxCmds == 3
\* Commands waiting in the (unbounded) command channel at one time.
MaxQueued == 2
\* Canonical-chain notifications waiting on the chain event stream at one time.
MaxChainQueued == 1
\* Requests the peers send to the eth request handler over a whole run.
MaxEthRequests == 3
\* Capacity of the incoming request channel (set by the network manager).
MaxIncoming == 2
\* The tip of the short chain 0..ShortTip and of the long one, which holds
\* more blocks than one response may carry.
ShortTip == 10
LongTip == 1100
\* Events published on the payload-event broadcast in the runs that fill it.
MaxPublished == 25
MaxDropped == 1

(***************************************************************************)
(* Generic helpers.                                                        *)
(***************************************************************************)
\* swap_remove, mutated: the last element is removed whatever the index.
SwapRemoveLast(s, i) == SubSeq(s, 1, Len(s) - 1)

\* Vec::swap_remove(i): remove element i, the last element takes its place.
SwapRemove(s, i) ==
    IF i = Len(s)
    THEN SubSeq(s, 1, Len(s) - 1)
    ELSE [SubSeq(s, 1, Len(s) - 1) EXCEPT ![i] = s[Len(s)]]

\* The sum of f[i] for i in lo..hi, halving the range.
RECURSIVE SumOver(_, _, _)
SumOver(f, lo, hi) ==
    IF lo > hi THEN 0
    ELSE IF lo = hi THEN f[lo]
    ELSE LET mid == (lo + hi) \div 2
         IN  SumOver(f, lo, mid) + SumOver(f, mid + 1, hi)

(***************************************************************************)
(*                     P a y l o a d B u i l d e r S e r v i c e           *)
(***************************************************************************)
\* Payload attributes the clients use.  Attributes are opaque to the service
\* except for the payload id they yield.
Attrs == 1..3

\* attr.payload_id(): a deterministic derivation, not necessarily injective
\* (attributes 1 and 2 yield id 1, attribute 3 yields id 2).
PayloadIdOf(attr) == (attr + 1) \div 2

PayloadIds == {PayloadIdOf(a) : a \in Attrs}

\* The commands of PayloadServiceCommand (without their reply sink).
Commands ==
    [kind : {"BuildNewPayload"}, arg : Attrs]
    \cup [kind : {"BestPayload", "PayloadAttributes", "Resolve"}, arg : PayloadIds]
    \cup [kind : {"Subscribe"}, arg : {0}]

\* Outcomes of the external collaborators.
PollOutcomes == {"Pending", "ReadyOk", "ReadyErr"}
GeneratorOutcomes == {"Ok", "Err"}
KeepAliveVerdicts == {"Yes", "No"}

VARIABLES
    \* ---- PayloadBuilderService state
    payload_jobs,    \* Vec<(Job, PayloadId)>: sequence of [id, attr]
    command_rx,      \* the command channel: sequence of [kind, arg, tx]
    chain_events,    \* the chain event stream: sequence of [ahead, late]
    metrics,         \* [initiated_jobs, failed_jobs]
    receivers,       \* payload_events.receiver_count()
    replies,         \* replies[tx]: how many values one-shot sink tx was sent
    svc_pc,          \* position of poll: "pending", "events", "jobs", "commands"
    idx,             \* the job pass' loop index (1-based), 0 when finished
    new_job,         \* poll's local `new_job`
    \* ---- observation of the builder service
    resolved_no,     \* ids resolved with keep_alive = No and not accepted since
    last,            \* the command handled last, with what it changed
    pass,            \* the job pass in progress: jobs at its start, polls so far
    newborn,         \* ids of the jobs created and not polled since
    polled_ids,      \* ids of the jobs polled so far in this wake-up
    \* ---- the payload-event broadcast and the resolve futures
    subscribers,     \* the broadcast receivers: sequence of [since, queue, observed]
    published,       \* how many events payload_events.send was given
    futures,         \* the resolve futures handed out and not completed yet
    done,            \* the completed resolve futures: set of [p, ok]
    rx_dropped,      \* the one-shot sinks whose receiver the client dropped
    \* ---- EthRequestHandler state
    store,           \* the chain store behind `client`
    incoming,        \* incoming_requests: sequence of [kind, request, response]
    sinks,           \* sinks[response]: [env, sent, dropped] of each one-shot sink
    eth_metrics,     \* the *_requests_received_total counters
    eth_pc,          \* "pending" (the stream holds the waker), "yielded" (it does
                     \* not), "polling", "headers", "bodies", "receipts", "panicked"
    cur,             \* the envelope being handled
    loop_block,      \* get_headers_response's `block`
    loop_acc,        \* the Vec the handler accumulates
    loop_bytes,      \* `total_bytes`
    loop_i,          \* iterations of the handler's loop so far
    eth_drained,     \* whether this poll handled a request
    eth_woken        \* whether the task was woken: by the stream that held its
                     \* waker, or by itself (cx.waker().wake_by_ref())

svc_vars == <<payload_jobs, command_rx, chain_events, metrics, receivers, replies,
              svc_pc, idx, new_job, resolved_no, last, pass, newborn,
              polled_ids>>

event_vars == <<subscribers, published, futures, done, rx_dropped>>

eth_vars == <<store, incoming, sinks, eth_metrics, eth_pc, cur, loop_block, loop_acc,
              loop_bytes, loop_i, eth_drained, eth_woken>>

vars == <<svc_vars, event_vars, eth_vars>>

ActiveIds == {payload_jobs[i].id : i \in 1..Len(payload_jobs)}

\* contains_payload, mutated: never finds the id.
contains_payload_never(id) == FALSE

\* PayloadBuilderService::contains_payload
contains_payload(id) == \E i \in 1..Len(payload_jobs) : payload_jobs[i].id = id

\* The search, mutated: the first job is found whatever its id.
position_first(id) == IF payload_jobs = <<>> THEN 0 ELSE 1

\* iter().position(|(_, job_id)| *job_id == id): the first index holding id, 0 if none.
position(id) ==
    IF \E i \in 1..Len(payload_jobs) : payload_jobs[i].id = id
    THEN CHOOSE i \in 1..Len(payload_jobs) :
            /\ payload_jobs[i].id = id
            /\ \A j \in 1..(i - 1) : payload_jobs[j].id # id
    ELSE 0

\* PayloadBuilderService::best_payload: the job's best payload, or None.
best_payload(id) ==
    IF position(id) = 0 THEN <<"None">>
    ELSE <<"Some", [job |-> payload_jobs[position(id)].id,
                    attr |-> payload_jobs[position(id)].attr]>>

\* PayloadBuilderService::payload_attributes
payload_attributes(id) ==
    IF position(id) = 0 THEN <<"None">>
    ELSE <<"Some", payload_jobs[position(id)].attr>>

\* resolve, mutated: the job is removed on the opposite verdict.
ResolveRemovesInverted(keep_alive) == keep_alive = "Yes"

\* resolve: `if keep_alive == KeepPayloadJobAlive::No { swap_remove }`
ResolveRemoves(keep_alive) == keep_alive = "No"

\* The chain-event drain, mutated: it ends without looking at the stream.
ChainDrainDoneEarly == TRUE

\* `while let Poll::Ready(Some(new_head)) = chain_events.poll_next_unpin(cx)`
\* ends when the stream has nothing ready.
ChainDrainDone == chain_events = <<>>

\* The job pass, mutated: it starts below the last job.
JobPassFirstSkipsLast == IF payload_jobs = <<>> THEN 0 ELSE Len(payload_jobs) - 1

\* `for idx in (0..this.payload_jobs.len()).rev()`: the first index of the
\* pass (1-based), 0 when there is no job.
JobPassFirst == Len(payload_jobs)

\* No job pass is in progress.
NoPass == [start |-> <<>>, polled |-> <<>>]

PAYLOAD_EVENTS_BUFFER_SIZE == 20

\* The broadcast channel, mutated: a full receiver queue drops the new event.
SendToReceiverDropNewest(queue, event) ==
    IF Len(queue) >= PAYLOAD_EVENTS_BUFFER_SIZE THEN queue ELSE Append(queue, event)

\* The broadcast channel stores an event for one receiver: the channel holds
\* PAYLOAD_EVENTS_BUFFER_SIZE events, a receiver that lags behind by more
\* loses the oldest one.
SendToReceiver(queue, event) ==
    IF Len(queue) >= PAYLOAD_EVENTS_BUFFER_SIZE
    THEN Append(Tail(queue), event)
    ELSE Append(queue, event)

\* payload_events.send(event).ok(): every receiver is given the event; with
\* no receiver the send fails and the failure is swallowed.  It never waits.
Broadcast(event) ==
    /\ subscribers' = [k \in 1..Len(subscribers) |->
            [subscribers[k] EXCEPT !.queue = SendToReceiver(@, event)]]
    /\ published' = published + 1

\* this.metrics.inc_failed_jobs(), mutated: the counter keeps its value.
inc_failed_jobs_lost(m) == m

\* this.metrics.inc_failed_jobs()
inc_failed_jobs(m) == [m EXCEPT !.failed_jobs = @ + 1]

\* The exit condition, mutated: poll returns Pending after every pass.
ReturnsPendingAlways == TRUE

\* `if !new_job { return Poll::Pending }`
ReturnsPending == ~new_job

NoCommand == [cmd |-> [kind |-> "None", arg |-> 0], tx |-> 0,
              reply |-> <<"None">>,
              active |-> {}, asked |-> FALSE, created |-> FALSE, keep |-> "NA",
              init0 |-> 0, init1 |-> 0, failed0 |-> 0, failed1 |-> 0, sent |-> <<>>]

InitService ==
    /\ payload_jobs = <<>>
    /\ command_rx = <<>>
    /\ chain_events = <<>>
    /\ metrics = [initiated_jobs |-> 0, failed_jobs |-> 0]
    /\ receivers = 0
    /\ replies = <<>>
    /\ svc_pc = "pending"
    /\ idx = 0
    /\ new_job = FALSE
    /\ resolved_no = {}
    /\ last = NoCommand
    /\ pass = NoPass
    /\ newborn = {}
    /\ polled_ids = {}
    /\ subscribers = <<>>
    /\ published = 0
    /\ futures = {}
    /\ done = {}
    /\ rx_dropped = {}

(***************************************************************************)
(* Producers.                                                              *)
(***************************************************************************)
\* PayloadBuilderHandle::{send_new_payload, best_payload, resolve_kind,
\* subscribe, payload_attributes}: create a one-shot sink, enqueue the command.
SendCommand ==
    /\ Len(replies) < MaxCmds
    /\ Len(command_rx) < MaxQueued
    /\ \E c \in Commands :
          command_rx' = Append(command_rx,
              [kind |-> c.kind, arg |-> c.arg, tx |-> Len(replies) + 1])
    /\ replies' = Append(replies, 0)
    /\ UNCHANGED <<payload_jobs, chain_events, metrics, receivers, svc_pc, idx, new_job,
                   resolved_no, last>>
    /\ UNCHANGED <<pass, newborn, polled_ids, event_vars, eth_vars>>

\* A client drops the receiving half of a one-shot sink before the reply:
\* the future of best_payload, resolve_kind, subscribe or payload_attributes
\* is cancelled, or the receiver send_new_payload returned is dropped.
DropReceiver ==
    /\ Cardinality(rx_dropped) < MaxDropped
    /\ \E tx \in 1..Len(replies) :
          /\ tx \notin rx_dropped
          /\ replies[tx] = 0
          /\ rx_dropped' = rx_dropped \cup {tx}
    /\ UNCHANGED <<subscribers, published, futures, done, svc_vars, eth_vars>>

\* The canonical chain publishes a notification on the chain event stream.
\* `ahead` observes how many commands enqueued before the notification are
\* still waiting in the command channel, `late` whether the pass in progress
\* had already ended its chain-event drain.
ChainNotify ==
    /\ Len(chain_events) < MaxChainQueued
    /\ chain_events' = Append(chain_events,
            [ahead |-> Len(command_rx), late |-> svc_pc \in {"jobs", "commands"}])
    /\ UNCHANGED <<payload_jobs, command_rx, metrics, receivers, replies, svc_pc, idx,
                   new_job, resolved_no, last>>
    /\ UNCHANGED <<pass, newborn, polled_ids, event_vars, eth_vars>>

(***************************************************************************)
(* PayloadBuilderService::poll                                              *)
(***************************************************************************)
\* The wakers that poll registered with cx: the chain event stream and the
\* command channel wake the task when they hold an item, a job when it likes.
Woken == chain_events # <<>> \/ command_rx # <<>> \/ payload_jobs # <<>>

\* The runtime polls the woken service (which returned Pending): the loop starts.
Wake ==
    /\ svc_pc = "pending"
    /\ Woken
    /\ svc_pc' = "events"
    /\ UNCHANGED <<payload_jobs, command_rx, chain_events, metrics, receivers, replies,
                   idx, new_job, resolved_no, last>>
    /\ UNCHANGED <<pass, newborn, polled_ids, event_vars, eth_vars>>

\* One iteration of the chain-event drain: generator.on_new_state(new_head).
DrainChainEvent ==
    /\ svc_pc = "events"
    /\ chain_events # <<>>
    /\ chain_events' = Tail(chain_events)
    /\ UNCHANGED <<payload_jobs, command_rx, metrics, receivers, replies, svc_pc, idx,
                   new_job, resolved_no, last>>
    /\ UNCHANGED <<pass, newborn, polled_ids, event_vars, eth_vars>>

\* The chain-event drain ends; the job pass starts at the last index.
ChainEventsNotReady ==
    /\ svc_pc = "events"
    /\ ChainDrainDone
    /\ svc_pc' = "jobs"
    /\ idx' = JobPassFirst
    /\ pass' = [start |-> payload_jobs, polled |-> <<>>]
    /\ UNCHANGED <<payload_jobs, command_rx, chain_events, metrics, receivers, replies,
                   new_job, resolved_no, last, newborn, polled_ids>>
    /\ UNCHANGED <<event_vars, eth_vars>>

\* One iteration of `for idx in (0..payload_jobs.len()).rev()`.
PollJob ==
    /\ svc_pc = "jobs"
    /\ idx >= 1
    /\ LET job == payload_jobs[idx]
           rest == SwapRemove(payload_jobs, idx)
       IN \E outcome \in PollOutcomes :
            /\ \/ /\ outcome = "ReadyOk"
                  /\ payload_jobs' = rest
                  /\ metrics' = metrics
               \/ /\ outcome = "ReadyErr"
                  /\ payload_jobs' = rest
                  /\ metrics' = inc_failed_jobs(metrics)
               \/ /\ outcome = "Pending"
                  /\ payload_jobs' = Append(rest, job)
                  /\ metrics' = metrics
            /\ pass' = [pass EXCEPT !.polled = Append(@, [job |-> job, outcome |-> outcome])]
            /\ newborn' = newborn \ {job.id}
            /\ polled_ids' = polled_ids \cup {job.id}
    /\ idx' = idx - 1
    /\ UNCHANGED <<command_rx, chain_events, receivers, replies, svc_pc, new_job,
                   resolved_no, last>>
    /\ UNCHANGED <<event_vars, eth_vars>>

\* The job pass is over: `let mut new_job = false;`
JobsDone ==
    /\ svc_pc = "jobs"
    /\ idx = 0
    /\ svc_pc' = "commands"
    /\ new_job' = FALSE
    /\ pass' = NoPass
    /\ UNCHANGED <<payload_jobs, command_rx, chain_events, metrics, receivers, replies,
                   idx, resolved_no, last, newborn, polled_ids>>
    /\ UNCHANGED <<event_vars, eth_vars>>

\* tx.send(value) returns Err(value) when the receiver of the one-shot sink
\* was dropped; `let _ =` drops the value it gives back.
SendFails(tx) == tx \in rx_dropped

\* The reply, mutated: nothing is sent to a sink whose receiver was dropped.
ReplyUnlessDropped(cmd, value, asked, created, keep, sent) ==
    /\ replies' = IF SendFails(cmd.tx) THEN replies
                  ELSE [replies EXCEPT ![cmd.tx] = @ + 1]
    /\ last' = [cmd |-> [kind |-> cmd.kind, arg |-> cmd.arg], tx |-> cmd.tx,
                reply |-> value, active |-> ActiveIds, asked |-> asked,
                created |-> created, keep |-> keep,
                init0 |-> metrics.initiated_jobs, init1 |-> metrics'.initiated_jobs,
                failed0 |-> metrics.failed_jobs, failed1 |-> metrics'.failed_jobs,
                sent |-> sent]

\* `let _ = tx.send(value)`: the one-shot sink of the command receives a value.
\* What the command changed is kept in `last`.
Reply(cmd, value, asked, created, keep, sent) ==
    /\ replies' = [replies EXCEPT ![cmd.tx] = @ + 1]
    /\ last' = [cmd |-> [kind |-> cmd.kind, arg |-> cmd.arg], tx |-> cmd.tx,
                reply |-> value, active |-> ActiveIds, asked |-> asked,
                created |-> created, keep |-> keep,
                init0 |-> metrics.initiated_jobs, init1 |-> metrics'.initiated_jobs,
                failed0 |-> metrics.failed_jobs, failed1 |-> metrics'.failed_jobs,
                sent |-> sent]

\* The BuildNewPayload arm.
HandleBuildNewPayload(cmd) ==
    LET attr == cmd.arg
        id == PayloadIdOf(attr)
    IN  IF contains_payload(id)
        THEN /\ UNCHANGED <<payload_jobs, metrics, receivers, new_job, resolved_no,
                            newborn, subscribers, published, futures, done>>
             /\ Reply(cmd, <<"Ok", id>>, FALSE, FALSE, "NA", <<>>)
        ELSE \E gen \in GeneratorOutcomes :
               /\ UNCHANGED <<receivers, futures, done>>
               /\ \/ /\ gen = "Ok"
                     /\ metrics' = [metrics EXCEPT !.initiated_jobs = @ + 1]
                     /\ new_job' = TRUE
                     /\ payload_jobs' = Append(payload_jobs, [id |-> id, attr |-> attr])
                     /\ Broadcast([kind |-> "Attributes", arg |-> attr])
                     /\ resolved_no' = resolved_no \ {id}
                     /\ newborn' = newborn \cup {id}
                     /\ Reply(cmd, <<"Ok", id>>, TRUE, TRUE, "NA",
                              <<[kind |-> "Attributes", arg |-> attr]>>)
                  \/ /\ gen = "Err"
                     /\ metrics' = inc_failed_jobs(metrics)
                     /\ UNCHANGED <<payload_jobs, new_job, resolved_no, newborn,
                                    subscribers, published>>
                     /\ Reply(cmd, <<"Err">>, TRUE, FALSE, "NA", <<>>)

\* The BestPayload arm.
HandleBestPayload(cmd) ==
    /\ UNCHANGED <<payload_jobs, metrics, receivers, new_job, resolved_no, newborn,
                   subscribers, published, futures, done>>
    /\ Reply(cmd, best_payload(cmd.arg), FALSE, FALSE, "NA", <<>>)

\* The PayloadAttributes arm.
HandlePayloadAttributes(cmd) ==
    /\ UNCHANGED <<payload_jobs, metrics, receivers, new_job, resolved_no, newborn,
                   subscribers, published, futures, done>>
    /\ Reply(cmd, payload_attributes(cmd.arg), FALSE, FALSE, "NA", <<>>)

\* The Resolve arm: PayloadBuilderService::resolve.
HandleResolve(cmd) ==
    LET job == position(cmd.arg)
    IN  IF job = 0
        THEN /\ UNCHANGED <<payload_jobs, metrics, receivers, new_job, resolved_no,
                            newborn, subscribers, published, futures, done>>
             /\ Reply(cmd, <<"None">>, FALSE, FALSE, "NA", <<>>)
        ELSE \E keep_alive \in KeepAliveVerdicts :
               /\ payload_jobs' = IF ResolveRemoves(keep_alive)
                                  THEN SwapRemove(payload_jobs, job)
                                  ELSE payload_jobs
               /\ resolved_no' = IF keep_alive = "No"
                                 THEN resolved_no \cup {cmd.arg}
                                 ELSE resolved_no
               /\ futures' = IF SendFails(cmd.tx) THEN futures ELSE futures \cup {cmd.tx}
               /\ UNCHANGED <<metrics, receivers, new_job, newborn, subscribers,
                              published, done>>
               /\ Reply(cmd, <<"Some", [future |-> cmd.arg]>>, FALSE, FALSE, keep_alive, <<>>)

\* The Subscribe arm: payload_events.subscribe().
HandleSubscribe(cmd) ==
    /\ IF SendFails(cmd.tx)
       THEN UNCHANGED <<receivers, subscribers>>
       ELSE /\ receivers' = receivers + 1
            /\ subscribers' = Append(subscribers,
                    [since |-> cmd.tx, queue |-> <<>>, observed |-> <<>>])
    /\ UNCHANGED <<payload_jobs, metrics, new_job, resolved_no, newborn, published,
                   futures, done>>
    /\ Reply(cmd, <<"Receiver", receivers + 1>>, FALSE, FALSE, "NA", <<>>)

\* One iteration of `while let Poll::Ready(Some(cmd)) = command_rx.poll_next_unpin(cx)`.
HandleCommand ==
    /\ svc_pc = "commands"
    /\ command_rx # <<>>
    /\ LET cmd == Head(command_rx)
       IN  \/ cmd.kind = "BuildNewPayload" /\ HandleBuildNewPayload(cmd)
           \/ cmd.kind = "BestPayload" /\ HandleBestPayload(cmd)
           \/ cmd.kind = "PayloadAttributes" /\ HandlePayloadAttributes(cmd)
           \/ cmd.kind = "Resolve" /\ HandleResolve(cmd)
           \/ cmd.kind = "Subscribe" /\ HandleSubscribe(cmd)
    /\ command_rx' = Tail(command_rx)
    /\ chain_events' = [i \in 1..Len(chain_events) |->
            [chain_events[i] EXCEPT !.ahead = IF @ > 0 THEN @ - 1 ELSE 0]]
    /\ UNCHANGED <<svc_pc, idx, pass, polled_ids, rx_dropped>>
    /\ UNCHANGED eth_vars

\* The command channel has nothing ready: loop again if a job was created,
\* otherwise return Poll::Pending.
CommandsNotReady ==
    /\ svc_pc = "commands"
    /\ command_rx = <<>>
    /\ svc_pc' = IF ReturnsPending THEN "pending" ELSE "events"
    /\ new_job' = FALSE
    /\ polled_ids' = IF svc_pc' = "pending" THEN {} ELSE polled_ids
    /\ UNCHANGED <<payload_jobs, command_rx, chain_events, metrics, receivers, replies,
                   idx, resolved_no, last>>
    /\ UNCHANGED <<pass, newborn, event_vars, eth_vars>>

(***************************************************************************)
(* The resolve futures and the payload-event broadcast.                    *)
(***************************************************************************)
\* The wrapped future, mutated: the event is sent whatever the result is.
SendsBuiltPayloadAlways(res) == receivers > 0

\* `if let Ok(payload) = &res { if payload_events.receiver_count() > 0 {`
SendsBuiltPayload(res) == res = "Ok" /\ receivers > 0

\* The wrapped future `resolve` returned for the Resolve command with sink p
\* completes in the client's task: `let res = fut.await`; on Ok(payload),
\* Events::BuiltPayload(payload) is sent if payload_events.receiver_count() > 0.
\* The payload of that future is named p.
FutureCompletes ==
    /\ \E p \in futures, res \in {"Ok", "Err"} :
          /\ futures' = futures \ {p}
          /\ done' = done \cup {[p |-> p, ok |-> (res = "Ok")]}
          /\ IF SendsBuiltPayload(res)
             THEN Broadcast([kind |-> "BuiltPayload", arg |-> p])
             ELSE UNCHANGED <<subscribers, published>>
    /\ UNCHANGED <<rx_dropped, svc_vars, eth_vars>>

\* payload_events.send(event), whoever calls it: event number published + 1
\* is given to the broadcast.
Publish ==
    /\ published < MaxPublished
    /\ Broadcast([kind |-> "BuiltPayload", arg |-> published + 1])
    /\ UNCHANGED <<futures, done, rx_dropped, svc_vars, eth_vars>>

\* A subscriber receives the oldest event the broadcast still holds for it.
SubscriberRecv ==
    /\ \E k \in 1..Len(subscribers) :
          /\ subscribers[k].queue # <<>>
          /\ subscribers' = [subscribers EXCEPT
                ![k].observed = Append(@, Head(subscribers[k].queue)),
                ![k].queue = Tail(@)]
    /\ UNCHANGED <<published, futures, done, rx_dropped, svc_vars, eth_vars>>

(***************************************************************************)
(*                       E t h R e q u e s t H a n d l e r                 *)
(***************************************************************************)
MAX_RECEIPTS_SERVE == 1024
MAX_HEADERS_SERVE == 1024
MAX_BODIES_SERVE == 1024
SOFT_RESPONSE_LIMIT == 2 * 1024 * 1024

\* Block numbers are u64 in the code; the model keeps WordBits of them.
WordBits == 16
U64_MAX == 2^WordBits - 1

(***************************************************************************)
(* The chain store behind `client`.  A block hash is a pair <<chain, n>>:  *)
(* the canonical block of number n, or the block of number n on a side     *)
(* chain.  A store st holds the canonical blocks 0..st.tip and, when       *)
(* st.side > 0, two side blocks numbered st.side and st.side + 1, the      *)
(* first a child of the canonical block st.side - 1 and the second a child *)
(* of the first.  Every lookup that touches a block numbered in st.bad     *)
(* returns a storage error.  The encoded length of the header, body and    *)
(* bloomless receipts of block n is st.sizes[n mod Len(st.sizes) + 1].     *)
(***************************************************************************)
\* Option::None of a lookup (what unwrap_or_default() yields on an error).
NoHash == <<"none", 0>>
\* B256::ZERO, the parent hash of the genesis header.
ZeroHash == <<"zero", 0>>
\* A hash no store holds.
UnknownHash == <<"unknown", 0>>

InStore(st, h) ==
    \/ h[1] = "canon" /\ h[2] \in 0..st.tip
    \/ h[1] = "side" /\ st.side > 0 /\ h[2] \in {st.side, st.side + 1}

\* The lookup finds the block: it is stored and reading it does not fail.
Found(st, h) == InStore(st, h) /\ h[2] \notin st.bad

\* client.block_hash(num).unwrap_or_default()
block_hash(st, num) ==
    IF Found(st, <<"canon", num>>) THEN <<"canon", num>> ELSE NoHash

\* The header lookup, mutated: every reference yields a header.
header_by_hash_or_number_any(st, block) ==
    IF block[1] = "Hash" THEN block[2] ELSE <<"canon", block[2]>>

\* client.header_by_hash_or_number(block).unwrap_or_default(); the header is
\* named by its hash.
header_by_hash_or_number(st, block) ==
    IF block[1] = "Hash"
    THEN IF Found(st, block[2]) THEN block[2] ELSE NoHash
    ELSE block_hash(st, block[2])

\* The block lookup, mutated: every hash yields a block.
block_by_hash_any(st, hash) == hash

\* client.block_by_hash(hash).unwrap_or_default(), then block.into_body();
\* the body is named by the hash of its block.
block_by_hash(st, hash) == IF Found(st, hash) THEN hash ELSE NoHash

\* The number of receipts of a block.
ReceiptCount(h) == h[2] % 3

\* client.receipts_by_block(BlockHashOrNumber::Hash(hash)).unwrap_or_default()
receipts_by_block(st, hash) ==
    IF Found(st, hash)
    THEN [block |-> hash, count |-> ReceiptCount(hash), bloom |-> FALSE]
    ELSE [block |-> NoHash, count |-> 0, bloom |-> FALSE]

\* header.number()
number(header) == header[2]

\* header.parent_hash()
parent_hash(st, header) ==
    IF header[1] = "side" /\ header[2] = st.side + 1 THEN <<"side", st.side>>
    ELSE IF header[2] = 0 THEN ZeroHash
    ELSE <<"canon", header[2] - 1>>

\* header.length(), body.length(): the encoded length.
length(st, h) == st.sizes[(h[2] % Len(st.sizes)) + 1]

\* transformed_receipts.length(): a receipt with its bloom filter is longer
\* than the bloomless one by the encoded 256-byte bloom.
receipts_length(st, r) ==
    length(st, r.block) + (IF r.bloom THEN 259 * r.count ELSE 0)

\* transform_fn: ReceiptWithBloom::from on every receipt for GetReceipts,
\* the identity for GetReceipts69.
transform_fn(kind, r) ==
    IF kind = "GetReceipts" THEN [r EXCEPT !.bloom = TRUE] ELSE r

\* The byte cap, mutated: the byte total is not looked at.
ShapingStopCountOnly(len, total_bytes, max_serve) == len >= max_serve

\* `if xs.len() >= MAX_*_SERVE || total_bytes > SOFT_RESPONSE_LIMIT { break }`,
\* evaluated after the push.
ShapingStop(len, total_bytes, max_serve) ==
    len >= max_serve \/ total_bytes > SOFT_RESPONSE_LIMIT

\* The `break` of the traversal.
Break == <<"Break", 0>>

\* Rising, mutated: the skip is not added to the successor.
RisingNextNoSkip(header, skip) == <<"Number", number(header) + 1>>

\* `header.number() + 1` is a plain u64 addition: for a header numbered
\* U64_MAX it overflows.
SuccessorOverflows(header) == number(header) = U64_MAX

\* HeadersDirection::Rising: (header.number() + 1).checked_add(skip).  Only
\* the second addition is checked; the first one wraps around in a build
\* without overflow checks (in a build with them it panics, see
\* HeadersIteration).
RisingNext(header, skip) ==
    LET successor == (number(header) + 1) % (U64_MAX + 1)
    IN  IF successor + skip > U64_MAX
        THEN Break
        ELSE <<"Number", successor + skip>>

\* Falling, mutated: with skip = 0 the canonical header one number below is next.
FallingNextByNumber(st, header, skip) ==
    IF skip > 0
    THEN IF number(header) - 1 < 0 \/ number(header) - 1 - skip < 0
         THEN Break
         ELSE <<"Number", number(header) - 1 - skip>>
    ELSE <<"Number", number(header) - 1>>

\* HeadersDirection::Falling: with skip > 0,
\* header.number().checked_sub(1).and_then(|num| num.checked_sub(skip));
\* with skip = 0, header.parent_hash().
FallingNext(st, header, skip) ==
    IF skip > 0
    THEN IF number(header) - 1 < 0 \/ number(header) - 1 - skip < 0
         THEN Break
         ELSE <<"Number", number(header) - 1 - skip>>
    ELSE <<"Hash", parent_hash(st, header)>>

NoEnvelope == [kind |-> "None", request |-> <<>>, response |-> 0]

NoBlock == <<"None", 0>>

(***************************************************************************)
(* Stores and requests.                                                    *)
(***************************************************************************)
\* The smallest header of which three exceed the soft response limit.
ThirdOfLimit == (SOFT_RESPONSE_LIMIT + 2) \div 3

\* The chain 0..ShortTip of small blocks.
ChainStore == [tip |-> ShortTip, side |-> 0, bad |-> {}, sizes |-> <<600>>]

ShortStores ==
    {ChainStore,
     [ChainStore EXCEPT !.side = 4],
     [ChainStore EXCEPT !.bad = {7}],
     [ChainStore EXCEPT !.sizes = <<ThirdOfLimit>>],
     [ChainStore EXCEPT !.sizes = <<SOFT_RESPONSE_LIMIT \div 2>>],
     [ChainStore EXCEPT !.sizes = <<SOFT_RESPONSE_LIMIT + 1>>],
     [ChainStore EXCEPT !.sizes = <<600, SOFT_RESPONSE_LIMIT>>]}

\* Chains longer than a response may be; in the second one the element that
\* reaches the count cap crosses the byte cap too.
LongStores ==
    {[ChainStore EXCEPT !.tip = LongTip],
     [ChainStore EXCEPT !.tip = LongTip,
                        !.sizes = <<(SOFT_RESPONSE_LIMIT \div MAX_HEADERS_SERVE) + 1>>]}

Stores == ShortStores \cup LongStores

SideTop(st) == <<"side", st.side + 1>>

HeaderRequests(st) ==
    [start_block : {<<"Number", n>> : n \in {0, 1, 3, 5, st.tip, st.tip + 1}}
                   \cup {<<"Hash", h>> : h \in {<<"canon", 5>>, SideTop(st), UnknownHash}},
     limit : {0, 1, 3, 4, 5, 10, 2 * MAX_HEADERS_SERVE},
     skip : 0..3,
     direction : {"Rising", "Falling"}]

HashPool(st) == {<<"canon", 1>>, <<"canon", 2>>, <<"canon", 7>>, SideTop(st), UnknownHash}

HashLists(st) ==
    {<<>>}
    \cup {<<a>> : a \in HashPool(st)}
    \cup {<<a, b>> : a \in HashPool(st), b \in HashPool(st)}
    \cup {<<a, b, c>> : a \in HashPool(st), b \in HashPool(st), c \in HashPool(st)}
    \cup (IF st.tip > MAX_BODIES_SERVE
          THEN {[i \in 1..(MAX_BODIES_SERVE + 6) |-> <<"canon", i - 1>>]}
          ELSE {})

\* Every request a peer may send to a handler on store st.
Requests(st) ==
    [kind : {"GetBlockHeaders"}, request : HeaderRequests(st)]
    \cup [kind : {"GetBlockBodies", "GetReceipts", "GetReceipts69"}, request : HashLists(st)]
    \cup [kind : {"GetNodeData"}, request : {<<UnknownHash>>}]

\* The few requests of the runs with several requests.
FewRequests ==
    {[kind |-> "GetBlockHeaders",
      request |-> [start_block |-> <<"Number", 5>>, limit |-> 3, skip |-> 0,
                   direction |-> "Falling"]],
     [kind |-> "GetBlockHeaders",
      request |-> [start_block |-> <<"Number", 0>>, limit |-> 2, skip |-> 2,
                   direction |-> "Rising"]],
     [kind |-> "GetBlockBodies", request |-> <<<<"canon", 1>>>>],
     [kind |-> "GetNodeData", request |-> <<UnknownHash>>],
     [kind |-> "GetReceipts", request |-> <<<<"canon", 1>>>>],
     [kind |-> "GetReceipts69", request |-> <<<<"canon", 2>>, UnknownHash>>]}

InitHandler ==
    /\ eth_metrics = [headers |-> 0, bodies |-> 0, node_data |-> 0, receipts |-> 0]
    /\ eth_pc = "pending"
    /\ cur = NoEnvelope
    /\ loop_block = NoBlock
    /\ loop_acc = <<>>
    /\ loop_bytes = 0
    /\ loop_i = 0
    /\ eth_drained = FALSE
    /\ eth_woken = (incoming # <<>>)

\* A handler nobody sends to.
InitEthIdle ==
    /\ store = ChainStore
    /\ incoming = <<>>
    /\ sinks = <<>>
    /\ InitHandler

(***************************************************************************)
(* The network manager forwards a peer's request with a fresh one-shot     *)
(* sink.                                                                   *)
(***************************************************************************)
EthEnqueue ==
    /\ Len(sinks) < MaxEthRequests
    /\ Len(incoming) < MaxIncoming
    /\ \E r \in FewRequests :
          /\ incoming' = Append(incoming, [kind |-> r.kind, request |-> r.request,
                                           response |-> Len(sinks) + 1])
          /\ sinks' = Append(sinks, [kind |-> r.kind, request |-> r.request,
                                     sent |-> <<>>, dropped |-> FALSE])
    /\ eth_woken' = (eth_woken \/ eth_pc = "pending")
    /\ UNCHANGED <<store, eth_metrics, eth_pc, cur, loop_block, loop_acc, loop_bytes,
                   loop_i, eth_drained>>
    /\ UNCHANGED <<svc_vars, event_vars>>

(***************************************************************************)
(* EthRequestHandler::poll                                                 *)
(***************************************************************************)
\* The runtime polls the task: the stream woke it or it woke itself.
EthPoll ==
    /\ eth_pc \in {"pending", "yielded"}
    /\ eth_woken
    /\ eth_pc' = "polling"
    /\ eth_drained' = FALSE
    /\ eth_woken' = FALSE
    /\ UNCHANGED <<store, incoming, sinks, eth_metrics, cur, loop_block, loop_acc,
                   loop_bytes, loop_i>>
    /\ UNCHANGED <<svc_vars, event_vars>>

\* The GetNodeData arm, mutated: the sink is sent an empty response.
DropResponseAnswered(s, response) ==
    [s EXCEPT ![response].sent = Append(@, <<"Ok", <<>>>>)]

\* `IncomingEthRequest::GetNodeData { .. }`: the arm binds nothing, the
\* one-shot sender goes out of scope unused.
DropResponse(s, response) == [s EXCEPT ![response].dropped = TRUE]

\* `let _ = response.send(Ok(..))`: the handler is done with the envelope.
Respond(env, list) ==
    /\ sinks' = [sinks EXCEPT ![env.response].sent = Append(@, <<"Ok", list>>)]
    /\ eth_pc' = "polling"
    /\ eth_drained' = TRUE
    /\ cur' = NoEnvelope
    /\ loop_block' = NoBlock
    /\ loop_acc' = <<>>
    /\ loop_bytes' = 0
    /\ loop_i' = 0

\* The stream yields an envelope and it is of the given kind.
Receives(kind) ==
    /\ eth_pc = "polling"
    /\ incoming # <<>>
    /\ Head(incoming).kind = kind

\* on_headers_request and the start of get_headers_response, up to the loop.
OnHeadersRequest ==
    /\ Receives("GetBlockHeaders")
    /\ incoming' = Tail(incoming)
    /\ eth_metrics' = [eth_metrics EXCEPT !.headers = @ + 1]
    /\ LET env == Head(incoming)
           start_block == env.request.start_block
           hash == IF start_block[1] = "Hash"
                   THEN start_block[2]
                   ELSE block_hash(store, start_block[2])
       IN  IF hash = NoHash
           THEN Respond(env, <<>>)
           ELSE /\ cur' = env
                /\ loop_block' = <<"Hash", hash>>
                /\ loop_acc' = <<>>
                /\ loop_bytes' = 0
                /\ loop_i' = 0
                /\ eth_pc' = "headers"
                /\ UNCHANGED <<sinks, eth_drained>>
    /\ UNCHANGED <<store, eth_woken>>
    /\ UNCHANGED <<svc_vars, event_vars>>

\* An arithmetic overflow in a build with overflow checks: the task panics
\* inside poll and is never polled again; the sender of the request in hand
\* is dropped by the unwinding.
Panics ==
    /\ eth_pc' = "panicked"
    /\ sinks' = DropResponse(sinks, cur.response)
    /\ UNCHANGED <<cur, loop_block, loop_acc, loop_bytes, loop_i, eth_drained>>

\* One iteration of `for _ in 0..limit` in get_headers_response.  Whether
\* the build checks for overflow is not decided by the source: where the
\* unchecked addition overflows, both outcomes are possible.
HeadersIteration ==
    /\ eth_pc = "headers"
    /\ loop_i < cur.request.limit
    /\ LET header == header_by_hash_or_number(store, loop_block)
           next == IF cur.request.direction = "Rising"
                   THEN RisingNext(header, cur.request.skip)
                   ELSE FallingNext(store, header, cur.request.skip)
           headers == Append(loop_acc, header)
           total_bytes == loop_bytes + length(store, header)
       IN  \/ /\ header # NoHash
              /\ cur.request.direction = "Rising"
              /\ SuccessorOverflows(header)
              /\ Panics
           \/ IF header = NoHash
              THEN Respond(cur, loop_acc)
              ELSE IF next = Break
              THEN Respond(cur, loop_acc)
              ELSE IF ShapingStop(Len(headers), total_bytes, MAX_HEADERS_SERVE)
              THEN Respond(cur, headers)
              ELSE /\ loop_block' = next
                   /\ loop_acc' = headers
                   /\ loop_bytes' = total_bytes
                   /\ loop_i' = loop_i + 1
                   /\ UNCHANGED <<sinks, eth_pc, eth_drained, cur>>
    /\ UNCHANGED <<store, incoming, eth_metrics, eth_woken>>
    /\ UNCHANGED <<svc_vars, event_vars>>

\* `for _ in 0..limit` is over: on_headers_request sends the headers.
HeadersLoopEnd ==
    /\ eth_pc = "headers"
    /\ loop_i >= cur.request.limit
    /\ Respond(cur, loop_acc)
    /\ UNCHANGED <<store, incoming, eth_metrics, eth_woken>>
    /\ UNCHANGED <<svc_vars, event_vars>>

\* on_bodies_request, up to the loop.
OnBodiesRequest ==
    /\ Receives("GetBlockBodies")
    /\ incoming' = Tail(incoming)
    /\ eth_metrics' = [eth_metrics EXCEPT !.bodies = @ + 1]
    /\ cur' = Head(incoming)
    /\ eth_pc' = "bodies"
    /\ loop_acc' = <<>>
    /\ loop_bytes' = 0
    /\ loop_i' = 0
    /\ UNCHANGED <<store, sinks, loop_block, eth_drained, eth_woken>>
    /\ UNCHANGED <<svc_vars, event_vars>>

\* One iteration of `for hash in request.0` in on_bodies_request.
BodiesIteration ==
    /\ eth_pc = "bodies"
    /\ loop_i < Len(cur.request)
    /\ LET hash == cur.request[loop_i + 1]
           body == block_by_hash(store, hash)
           bodies == Append(loop_acc, body)
           total_bytes == loop_bytes + length(store, body)
       IN  IF body = NoHash
           THEN Respond(cur, loop_acc)
           ELSE IF ShapingStop(Len(bodies), total_bytes, MAX_BODIES_SERVE)
           THEN Respond(cur, bodies)
           ELSE /\ loop_acc' = bodies
                /\ loop_bytes' = total_bytes
                /\ loop_i' = loop_i + 1
                /\ UNCHANGED <<sinks, eth_pc, eth_drained, cur, loop_block>>
    /\ UNCHANGED <<store, incoming, eth_metrics, eth_woken>>
    /\ UNCHANGED <<svc_vars, event_vars>>

\* The hash list is exhausted: on_bodies_request sends the bodies.
BodiesLoopEnd ==
    /\ eth_pc = "bodies"
    /\ loop_i >= Len(cur.request)
    /\ Respond(cur, loop_acc)
    /\ UNCHANGED <<store, incoming, eth_metrics, eth_woken>>
    /\ UNCHANGED <<svc_vars, event_vars>>

\* GetNodeData: the metric is incremented, the envelope, its sink included,
\* is dropped.
OnNodeDataRequest ==
    /\ Receives("GetNodeData")
    /\ incoming' = Tail(incoming)
    /\ eth_metrics' = [eth_metrics EXCEPT !.node_data = @ + 1]
    /\ sinks' = DropResponse(sinks, Head(incoming).response)
    /\ eth_drained' = TRUE
    /\ UNCHANGED <<store, eth_pc, cur, loop_block, loop_acc, loop_bytes, loop_i, eth_woken>>
    /\ UNCHANGED <<svc_vars, event_vars>>

\* The start of get_receipts_response, up to its loop.
ReceiptsStart ==
    /\ incoming' = Tail(incoming)
    /\ eth_metrics' = [eth_metrics EXCEPT !.receipts = @ + 1]
    /\ cur' = Head(incoming)
    /\ eth_pc' = "receipts"
    /\ loop_acc' = <<>>
    /\ loop_bytes' = 0
    /\ loop_i' = 0
    /\ UNCHANGED <<store, sinks, loop_block, eth_drained, eth_woken>>
    /\ UNCHANGED <<svc_vars, event_vars>>

\* on_receipts_request
OnReceiptsRequest ==
    /\ Receives("GetReceipts")
    /\ ReceiptsStart

\* on_receipts69_request
OnReceipts69Request ==
    /\ Receives("GetReceipts69")
    /\ ReceiptsStart

\* One iteration of `for hash in request.0` in get_receipts_response.
ReceiptsIteration ==
    /\ eth_pc = "receipts"
    /\ loop_i < Len(cur.request)
    /\ LET hash == cur.request[loop_i + 1]
           receipts_of_block == receipts_by_block(store, hash)
           transformed_receipts == transform_fn(cur.kind, receipts_of_block)
           receipts == Append(loop_acc, transformed_receipts)
           total_bytes == loop_bytes + receipts_length(store, transformed_receipts)
       IN  IF receipts_of_block.block = NoHash
           THEN Respond(cur, loop_acc)
           ELSE IF ShapingStop(Len(receipts), total_bytes, MAX_RECEIPTS_SERVE)
           THEN Respond(cur, receipts)
           ELSE /\ loop_acc' = receipts
                /\ loop_bytes' = total_bytes
                /\ loop_i' = loop_i + 1
                /\ UNCHANGED <<sinks, eth_pc, eth_drained, cur, loop_block>>
    /\ UNCHANGED <<store, incoming, eth_metrics, eth_woken>>
    /\ UNCHANGED <<svc_vars, event_vars>>

\* The hash list is exhausted: the receipts are returned and sent.
ReceiptsLoopEnd ==
    /\ eth_pc = "receipts"
    /\ loop_i >= Len(cur.request)
    /\ Respond(cur, loop_acc)
    /\ UNCHANGED <<store, incoming, eth_metrics, eth_woken>>
    /\ UNCHANGED <<svc_vars, event_vars>>

\* The end of poll, mutated: the task never wakes itself.
WakesItselfNever(maybe_more_incoming_requests) == FALSE

\* `if maybe_more_incoming_requests { cx.waker().wake_by_ref(); }`
WakesItself(maybe_more_incoming_requests) == maybe_more_incoming_requests

\* The drain's budget ran out after a request was handled: the macro yields
\* true without having polled the stream again, poll wakes its own waker and
\* returns Poll::Pending.
EthBudgetExhausted ==
    /\ eth_pc = "polling"
    /\ eth_drained
    /\ eth_pc' = "yielded"
    /\ eth_woken' = WakesItself(TRUE)
    /\ UNCHANGED <<store, incoming, sinks, eth_metrics, cur, loop_block, loop_acc,
                   loop_bytes, loop_i, eth_drained>>
    /\ UNCHANGED <<svc_vars, event_vars>>

\* The stream has nothing ready and keeps the task's waker: the macro yields
\* false, poll returns Poll::Pending.
EthStreamNotReady ==
    /\ eth_pc = "polling"
    /\ incoming = <<>>
    /\ eth_pc' = "pending"
    /\ eth_woken' = WakesItself(FALSE)
    /\ UNCHANGED <<store, incoming, sinks, eth_metrics, cur, loop_block, loop_acc,
                   loop_bytes, loop_i, eth_drained>>
    /\ UNCHANGED <<svc_vars, event_vars>>

(***************************************************************************)
(* The specifications.                                                     *)
(*   Spec      : the payload builder service and its clients.              *)
(*   SpecEth   : the request handler and peers sending several requests.   *)
(*   SpecServe : the request handler serving one request, drawn with the   *)
(*               store from Stores and Requests.                           *)
(***************************************************************************)
Init == InitService /\ InitEthIdle

Next ==
    \/ SendCommand
    \/ ChainNotify
    \/ Wake
    \/ DrainChainEvent
    \/ ChainEventsNotReady
    \/ PollJob
    \/ JobsDone
    \/ HandleCommand
    \/ CommandsNotReady

Spec == Init /\ [][Next]_vars

\* The runtime polls the service again whenever one of the wakers it
\* registered fired, and a poll that was started runs on: each step of the
\* loop that stays possible is taken.  The chain-event drain has no budget:
\* it ends only when the stream is found not ready, so the chain is taken
\* not to publish notifications without end.
Fairness ==
    /\ <>[][~ChainNotify]_vars
    /\ WF_vars(Wake)
    /\ WF_vars(DrainChainEvent)
    /\ WF_vars(ChainEventsNotReady)
    /\ WF_vars(PollJob)
    /\ WF_vars(JobsDone)
    /\ WF_vars(HandleCommand)
    /\ WF_vars(CommandsNotReady)

\* The builder service and clients that may drop the receiver of a reply.
NextDrop ==
    \/ SendCommand
    \/ ChainNotify
    \/ Wake
    \/ DrainChainEvent
    \/ ChainEventsNotReady
    \/ PollJob
    \/ JobsDone
    \/ HandleCommand
    \/ CommandsNotReady
    \/ DropReceiver

SpecDrop == Init /\ [][NextDrop]_vars

SpecLive == Init /\ [][Next]_vars /\ Fairness

\* The builder service, its clients and the resolve futures the clients await.
NextEvents ==
    \/ SendCommand
    \/ ChainNotify
    \/ Wake
    \/ DrainChainEvent
    \/ ChainEventsNotReady
    \/ PollJob
    \/ JobsDone
    \/ HandleCommand
    \/ CommandsNotReady
    \/ FutureCompletes

SpecEvents == Init /\ [][NextEvents]_vars

\* The service after it handled one Subscribe command and returned Pending.
InitBroadcast ==
    /\ payload_jobs = <<>>
    /\ command_rx = <<>>
    /\ chain_events = <<>>
    /\ metrics = [initiated_jobs |-> 0, failed_jobs |-> 0]
    /\ receivers = 1
    /\ replies = <<1>>
    /\ svc_pc = "pending"
    /\ idx = 0
    /\ new_job = FALSE
    /\ resolved_no = {}
    /\ last = [NoCommand EXCEPT !.cmd = [kind |-> "Subscribe", arg |-> 0], !.tx = 1,
                                !.reply = <<"Receiver", 1>>]
    /\ pass = NoPass
    /\ newborn = {}
    /\ polled_ids = {}
    /\ subscribers = <<[since |-> 1, queue |-> <<>>, observed |-> <<>>]>>
    /\ published = 0
    /\ futures = {}
    /\ done = {}
    /\ rx_dropped = {}
    /\ InitEthIdle

NextBroadcast ==
    \/ Publish
    \/ SubscriberRecv

SpecBroadcast == InitBroadcast /\ [][NextBroadcast]_vars

InitEth ==
    /\ InitService
    /\ store = [ChainStore EXCEPT !.side = 4]
    /\ incoming = <<>>
    /\ sinks = <<>>
    /\ InitHandler

NextEth ==
    \/ EthEnqueue
    \/ EthPoll
    \/ OnHeadersRequest
    \/ HeadersIteration
    \/ HeadersLoopEnd
    \/ OnBodiesRequest
    \/ BodiesIteration
    \/ BodiesLoopEnd
    \/ OnNodeDataRequest
    \/ OnReceiptsRequest
    \/ OnReceipts69Request
    \/ ReceiptsIteration
    \/ ReceiptsLoopEnd
    \/ EthBudgetExhausted
    \/ EthStreamNotReady

SpecEth == InitEth /\ [][NextEth]_vars

\* The runtime polls the woken handler, and a poll that was started runs on
\* until it returns.
EthFairness ==
    /\ WF_vars(EthPoll)
    /\ WF_vars(OnHeadersRequest)
    /\ WF_vars(HeadersIteration)
    /\ WF_vars(HeadersLoopEnd)
    /\ WF_vars(OnBodiesRequest)
    /\ WF_vars(BodiesIteration)
    /\ WF_vars(BodiesLoopEnd)
    /\ WF_vars(OnNodeDataRequest)
    /\ WF_vars(OnReceiptsRequest)
    /\ WF_vars(OnReceipts69Request)
    /\ WF_vars(ReceiptsIteration)
    /\ WF_vars(ReceiptsLoopEnd)
    /\ WF_vars(EthStreamNotReady)

SpecEthLive == InitEth /\ [][NextEth]_vars /\ EthFairness

InitServe ==
    /\ InitService
    /\ store \in Stores
    /\ \E r \in Requests(store) :
          /\ incoming = <<[kind |-> r.kind, request |-> r.request, response |-> 1]>>
          /\ sinks = <<[kind |-> r.kind, request |-> r.request, sent |-> <<>>,
                        dropped |-> FALSE]>>
    /\ InitHandler

NextServe ==
    \/ EthPoll
    \/ OnHeadersRequest
    \/ HeadersIteration
    \/ HeadersLoopEnd
    \/ OnBodiesRequest
    \/ BodiesIteration
    \/ BodiesLoopEnd
    \/ OnNodeDataRequest
    \/ OnReceiptsRequest
    \/ OnReceipts69Request
    \/ ReceiptsIteration
    \/ ReceiptsLoopEnd
    \/ EthBudgetExhausted
    \/ EthStreamNotReady

SpecServe == InitServe /\ [][NextServe]_vars

\* The chain whose tip is numbered U64_MAX, and header requests around the tip.
TopStore == [ChainStore EXCEPT !.tip = U64_MAX]

TopRequests ==
    [start_block : {<<"Number", U64_MAX - n>> : n \in 0..4}
                   \cup {<<"Hash", <<"canon", U64_MAX>>>>},
     limit : {1, 2, 3, 5},
     skip : 0..3,
     direction : {"Rising", "Falling"}]

\* The request handler serving one header request at the top of the u64 range.
InitTop ==
    /\ InitService
    /\ store = TopStore
    /\ \E r \in TopRequests :
          /\ incoming = <<[kind |-> "GetBlockHeaders", request |-> r, response |-> 1]>>
          /\ sinks = <<[kind |-> "GetBlockHeaders", request |-> r, sent |-> <<>>,
                        dropped |-> FALSE]>>
    /\ InitHandler

NextTop ==
    \/ EthPoll
    \/ OnHeadersRequest
    \/ HeadersIteration
    \/ HeadersLoopEnd
    \/ EthBudgetExhausted
    \/ EthStreamNotReady

SpecTop == InitTop /\ [][NextTop]_vars

(***************************************************************************)
(* C1: the active job set never holds two records with the same payload    *)
(* id, in any state of the service, the states between two iterations of   *)
(* the job pass included.                                                   *)
(***************************************************************************)
AtMostOneJobPerId ==
    \A i, j \in 1..Len(payload_jobs) :
        payload_jobs[i].id = payload_jobs[j].id => i = j

\* Two jobs are active in the middle of a job pass, and the command handled
\* last was a BuildNewPayload for an id that was already active.
WitnessTwoJobsMidPass ==
    /\ svc_pc = "jobs"
    /\ idx = 1
    /\ Len(payload_jobs) = 2
    /\ last.cmd.kind = "BuildNewPayload"
    /\ PayloadIdOf(last.cmd.arg) \in last.active

\* A command was handled in this step (every command has its own sink).
Handled == last'.tx # last.tx

\* The step handled a BuildNewPayload(a) right after another BuildNewPayload(a).
SecondOfTwoStarts ==
    /\ Handled
    /\ last.cmd.kind = "BuildNewPayload"
    /\ last'.cmd = last.cmd

\* Both replies are Ok(id), one job was created and one Attributes(a) sent.
OneJobForBoth ==
    /\ last.reply = <<"Ok", PayloadIdOf(last.cmd.arg)>>
    /\ last'.reply = last.reply
    /\ last'.init1 = last.init0 + 1
    /\ last.sent \o last'.sent = <<[kind |-> "Attributes", arg |-> last.cmd.arg]>>

(***************************************************************************)
(* C2, as stated: a BuildNewPayload(a) followed by another                 *)
(* BuildNewPayload(a) gets the same Ok(id) in both replies, creates        *)
(* exactly one job and sends exactly one Events::Attributes(a).            *)
(***************************************************************************)
IdempotentStartAlways == [][SecondOfTwoStarts => OneJobForBoth]_vars

(***************************************************************************)
(* C2, amended: when the generator created a job for the first             *)
(* BuildNewPayload(a) and a job with that id is still active when the      *)
(* next command, another BuildNewPayload(a), is handled, both replies are  *)
(* Ok(id), initiated_jobs grew by exactly one over the two commands and    *)
(* exactly one Events::Attributes(a) was sent.                             *)
(***************************************************************************)
IdempotentStartWhileActive ==
    [][(/\ SecondOfTwoStarts
        /\ last.created
        /\ PayloadIdOf(last.cmd.arg) \in last'.active) => OneJobForBoth]_vars

\* The second command of the run was a BuildNewPayload(a) that found the job
\* which the first command, a BuildNewPayload(a) too, had created.
WitnessSecondStartFoundJob ==
    /\ last.tx = 2
    /\ last.cmd.kind = "BuildNewPayload"
    /\ last.reply = <<"Ok", PayloadIdOf(last.cmd.arg)>>
    /\ ~last.created
    /\ last.init0 = 1
    /\ last.init1 = 1
    /\ \E i \in 1..Len(payload_jobs) : payload_jobs[i].attr = last.cmd.arg

(***************************************************************************)
(* C5: once a Resolve on id i was handled with keep_alive = No, a          *)
(* BestPayload(i) query finds no job, in every state until a               *)
(* BuildNewPayload whose attributes yield i is accepted; the BestPayload   *)
(* command handled last was answered accordingly.                          *)
(***************************************************************************)
ResolveTermination ==
    /\ \A i \in resolved_no : best_payload(i) = <<"None">>
    /\ (last.cmd.kind = "BestPayload" /\ last.cmd.arg \in resolved_no)
          => last.reply = <<"None">>

\* A BestPayload(i) was answered None after a job for i had been created and
\* resolved with keep_alive = No.
WitnessBestPayloadAfterResolve ==
    /\ last.cmd.kind = "BestPayload"
    /\ last.cmd.arg \in resolved_no
    /\ last.reply = <<"None">>
    /\ metrics.initiated_jobs >= 1

\* The step called generator.new_payload_job.
NewPayloadJobCalled == Handled /\ last'.asked

(***************************************************************************)
(* C6, as stated: when new_payload_job is called for a command, every      *)
(* notification enqueued before that command has been delivered to         *)
(* on_new_state: the ones still waiting were all enqueued after it.        *)
(***************************************************************************)
OrderingEveryInterleaving ==
    [][NewPayloadJobCalled =>
         \A i \in 1..Len(chain_events) : chain_events[i].ahead > 0]_vars

(***************************************************************************)
(* C6, amended: when new_payload_job is called, every notification that    *)
(* was enqueued before the pass ended its chain-event drain has been       *)
(* delivered to on_new_state: the ones still waiting were all enqueued     *)
(* after that drain, while the pass polled jobs or drained commands.       *)
(***************************************************************************)
OrderingWithinPass ==
    [][NewPayloadJobCalled =>
         \A i \in 1..Len(chain_events) : chain_events[i].late]_vars

\* The service is about to call new_payload_job for the command at the head
\* of the channel while a notification enqueued before that command, but
\* after the pass' chain-event drain, is waiting.
WitnessNotificationAfterDrain ==
    /\ svc_pc = "commands"
    /\ command_rx # <<>>
    /\ Head(command_rx).kind = "BuildNewPayload"
    /\ ~contains_payload(PayloadIdOf(Head(command_rx).arg))
    /\ chain_events # <<>>
    /\ chain_events[1].late
    /\ chain_events[1].ahead = 0

(***************************************************************************)
(* Observation of the request handler.                                     *)
(***************************************************************************)
EthSinks == 1..Len(sinks)

\* The handler received the envelope of sink i and is done with it.
EnvelopeDone(i) ==
    /\ \A j \in 1..Len(incoming) : incoming[j].response # i
    /\ cur.response # i

\* Sink i was sent a response, and the list it carries.
Served(i) == Len(sinks[i].sent) >= 1
Response(i) == sinks[i].sent[1][2]

ServedHeaders(i) == Served(i) /\ sinks[i].kind = "GetBlockHeaders"

\* The encoded length of an element of the response to a request of a kind.
ElementLength(kind, e) ==
    IF kind \in {"GetReceipts", "GetReceipts69"}
    THEN receipts_length(store, e)
    ELSE length(store, e)

\* The encoded bytes of the first n elements of the response on sink i.
ResponseBytes(i, n) ==
    SumOver([j \in 1..Len(Response(i)) |-> ElementLength(sinks[i].kind, Response(i)[j])],
            1, n)

\* The response on sink i stopped at a cap.
AtCap(i) ==
    \/ Len(Response(i)) >= MAX_HEADERS_SERVE
    \/ ResponseBytes(i, Len(Response(i))) > SOFT_RESPONSE_LIMIT

(***************************************************************************)
(* C3, as stated: every one-shot sink of an envelope the handler received  *)
(* and is done with, a GetNodeData envelope included, was sent exactly one *)
(* value, and no sink is ever sent two.                                    *)
(***************************************************************************)
ReplyExclusivity ==
    \A i \in EthSinks :
        /\ Len(sinks[i].sent) <= 1
        /\ EnvelopeDone(i) => Len(sinks[i].sent) = 1

(***************************************************************************)
(* C4: every served response to GetBlockHeaders, GetBlockBodies,           *)
(* GetReceipts or GetReceipts69 holds at most 1024 elements, and the       *)
(* encoded bytes of all its elements but the last are at most              *)
(* SOFT_RESPONSE_LIMIT.                                                    *)
(***************************************************************************)
BudgetRespect ==
    \A i \in EthSinks :
        Served(i) =>
            /\ Len(Response(i)) <= 1024
            /\ ResponseBytes(i, Len(Response(i)) - 1) <= 2 * 1024 * 1024

\* A response of exactly 1024 elements to a request for more, whose last
\* element took the byte total over the limit.
WitnessBothCapsReached ==
    \E i \in EthSinks :
        /\ Served(i)
        /\ sinks[i].kind = "GetBlockBodies"
        /\ Len(sinks[i].request) > 1024
        /\ Len(Response(i)) = 1024
        /\ ResponseBytes(i, 1023) <= 2 * 1024 * 1024
        /\ ResponseBytes(i, 1024) > 2 * 1024 * 1024

\* The number of the header a headers request starts at.
StartNumber(req) ==
    IF req.start_block[1] = "Number" THEN req.start_block[2] ELSE req.start_block[2][2]

\* A Falling request with skip > 0 whose start header is stored, and for
\* which the reference after the start header underflows.
UnderflowsAtStart(req) ==
    /\ req.direction = "Falling"
    /\ req.skip > 0
    /\ req.limit >= 1
    /\ req.start_block[1] = "Number"
    /\ Found(store, <<"canon", req.start_block[2]>>)
    /\ req.start_block[2] - 1 - req.skip < 0

(***************************************************************************)
(* C7, as stated: a header that was found is delivered even when computing *)
(* the next reference underflows: a Falling request with skip > 0 whose    *)
(* start header s is stored and for which s - 1 - skip is below zero is    *)
(* answered with exactly the header s; {start: number 1, limit 5, skip 3,  *)
(* Falling} yields [1].                                                    *)
(***************************************************************************)
FallingUnderflowDelivers ==
    \A i \in EthSinks :
        (ServedHeaders(i) /\ UnderflowsAtStart(sinks[i].request))
            => Response(i) = <<<<"canon", sinks[i].request.start_block[2]>>>>

\* The store holds headers of ceil(2 MiB / 3) bytes each, the request asks
\* for 10 headers and its traversal meets at least four stored headers.
ThirdSizedHeadersAsked(i) ==
    /\ ServedHeaders(i)
    /\ store.sizes = <<ThirdOfLimit>>
    /\ store.bad = {}
    /\ sinks[i].request.limit = 10
    /\ sinks[i].request.start_block # <<"Hash", UnknownHash>>
    /\ LET req == sinks[i].request
           last_number == IF req.direction = "Rising"
                          THEN StartNumber(req) + 3 * (req.skip + 1)
                          ELSE StartNumber(req) - 3 * (req.skip + 1)
       IN  /\ InStore(store, IF req.start_block[1] = "Hash" THEN req.start_block[2]
                             ELSE <<"canon", req.start_block[2]>>)
           /\ last_number \in 0..store.tip

(***************************************************************************)
(* C8, as stated: with headers of ceil(2 MiB / 3) bytes each and limit 10, *)
(* exactly 4 headers are returned.                                         *)
(***************************************************************************)
ByteCapPostAppendFour ==
    \A i \in EthSinks : ThirdSizedHeadersAsked(i) => Len(Response(i)) = 4

(***************************************************************************)
(* C8, amended: with headers of ceil(2 MiB / 3) bytes each and limit 10,   *)
(* exactly 3 headers are returned: two within the byte budget and the      *)
(* third, which crosses it (3 * ceil(2 MiB / 3) = 2 MiB + 1), after which  *)
(* no header is appended.                                                  *)
(***************************************************************************)
ByteCapPostAppendThree ==
    \A i \in EthSinks :
        ThirdSizedHeadersAsked(i) =>
            /\ Len(Response(i)) = 3
            /\ ResponseBytes(i, 2) <= 2 * 1024 * 1024
            /\ ResponseBytes(i, 3) > 2 * 1024 * 1024

\* The request {start: number 0, limit 10, skip 0, Rising} was served three
\* headers of ceil(2 MiB / 3) bytes each.
WitnessThirdHeaderCrosses ==
    /\ Len(sinks) = 1
    /\ ThirdSizedHeadersAsked(1)
    /\ sinks[1].request = [start_block |-> <<"Number", 0>>, limit |-> 10, skip |-> 0,
                           direction |-> "Rising"]
    /\ Response(1) = <<<<"canon", 0>>, <<"canon", 1>>, <<"canon", 2>>>>
    /\ length(store, <<"canon", 0>>) = 699051

\* A chain 0..N of small headers, N at least 9, all of them readable.
PlainChain == store.side = 0 /\ store.bad = {} /\ store.sizes = <<600>> /\ store.tip >= 9

RisingExample ==
    [start_block |-> <<"Number", 0>>, limit |-> 4, skip |-> 2, direction |-> "Rising"]

(***************************************************************************)
(* C9: a Rising request from start number s with skip k and limit L is     *)
(* answered with the canonical headers numbered s, s+(k+1), s+2(k+1), ...  *)
(* in this order, at most L of them, all of them found in the store; the   *)
(* list ends only at the limit, at the first of these numbers the store    *)
(* does not yield, or at the count or byte cap.  On a chain 0..N, N >= 9,  *)
(* {start 0, limit 4, skip 2} yields [0, 3, 6, 9].                         *)
(***************************************************************************)
RisingTraversal ==
    \A i \in EthSinks :
        (/\ ServedHeaders(i)
         /\ sinks[i].request.direction = "Rising"
         /\ sinks[i].request.start_block[1] = "Number") =>
            LET req == sinks[i].request
                s == req.start_block[2]
                R == Response(i)
            IN  /\ Len(R) <= req.limit
                /\ \A j \in 1..Len(R) :
                      /\ R[j] = <<"canon", s + (j - 1) * (req.skip + 1)>>
                      /\ Found(store, R[j])
                /\ \/ Len(R) = req.limit
                   \/ ~Found(store, <<"canon", s + Len(R) * (req.skip + 1)>>)
                   \/ AtCap(i)
                /\ (PlainChain /\ req = RisingExample)
                      => R = <<<<"canon", 0>>, <<"canon", 3>>, <<"canon", 6>>, <<"canon", 9>>>>

\* {start 0, limit 4, skip 2, Rising} was answered [0, 3, 6, 9].
WitnessRisingExample ==
    /\ Len(sinks) = 1
    /\ ServedHeaders(1)
    /\ sinks[1].request = RisingExample
    /\ Response(1) = <<<<"canon", 0>>, <<"canon", 3>>, <<"canon", 6>>, <<"canon", 9>>>>

FallingExample ==
    [start_block |-> <<"Number", 5>>, limit |-> 3, skip |-> 0, direction |-> "Falling"]

\* The hash a headers request starts at: the given one, or the canonical
\* hash of the given number.
StartHash(req) ==
    IF req.start_block[1] = "Hash" THEN req.start_block[2]
    ELSE <<"canon", req.start_block[2]>>

(***************************************************************************)
(* C10: a Falling request with skip = 0 is answered with the start header  *)
(* (a start number is resolved to the canonical hash first), then the      *)
(* header its parent hash names, and so on: every header of the list but   *)
(* the first is the one named by the parent hash of the header before it,  *)
(* whatever the canonical header one number below is.  At most `limit`     *)
(* headers are returned, all found in the store, and the list ends only at *)
(* the limit, at a parent (or start) the store does not yield, or at the   *)
(* count or byte cap.  {start 5, limit 3} yields [5, 4, 3].                *)
(***************************************************************************)
FallingByParentHash ==
    \A i \in EthSinks :
        (/\ ServedHeaders(i)
         /\ sinks[i].request.direction = "Falling"
         /\ sinks[i].request.skip = 0) =>
            LET req == sinks[i].request
                R == Response(i)
                next == IF R = <<>> THEN StartHash(req)
                        ELSE parent_hash(store, R[Len(R)])
            IN  /\ Len(R) <= req.limit
                /\ R # <<>> => R[1] = StartHash(req)
                /\ \A j \in 1..(Len(R) - 1) : R[j + 1] = parent_hash(store, R[j])
                /\ \A j \in 1..Len(R) : Found(store, R[j])
                /\ \/ Len(R) = req.limit
                   \/ ~Found(store, next)
                   \/ AtCap(i)
                /\ (PlainChain /\ req = FallingExample)
                      => R = <<<<"canon", 5>>, <<"canon", 4>>, <<"canon", 3>>>>

\* A Falling walk with skip = 0 from the top of the side chain went through
\* the side block below it, not through the canonical header of that number,
\* and joined the canonical chain.
WitnessWalkOverSideChain ==
    /\ Len(sinks) = 1
    /\ ServedHeaders(1)
    /\ store.side = 4
    /\ sinks[1].request = [start_block |-> <<"Hash", <<"side", 5>>>>, limit |-> 3,
                           skip |-> 0, direction |-> "Falling"]
    /\ Response(1) = <<<<"side", 5>>, <<"side", 4>>, <<"canon", 3>>>>

(***************************************************************************)
(* C11: a GetBlockHeaders request whose start hash the store does not      *)
(* yield, or whose start number has no block_hash mapping, is answered by  *)
(* exactly one value, Ok of the empty header list, whatever its limit,     *)
(* skip and direction.                                                     *)
(***************************************************************************)
MissingStartEmpty ==
    \A i \in EthSinks :
        (/\ sinks[i].kind = "GetBlockHeaders"
         /\ EnvelopeDone(i)
         /\ ~Found(store, StartHash(sinks[i].request)))
            => sinks[i].sent = << <<"Ok", <<>> >> >>

\* A request for 5 headers from a hash the store does not hold was answered
\* Ok([]).
WitnessUnknownStartHash ==
    /\ Len(sinks) = 1
    /\ sinks[1].kind = "GetBlockHeaders"
    /\ sinks[1].request.start_block = <<"Hash", UnknownHash>>
    /\ sinks[1].request.limit = 5
    /\ EnvelopeDone(1)
    /\ sinks[1].sent = << <<"Ok", <<>> >> >>

(***************************************************************************)
(* Observation of the builder service's events and job passes.             *)
(***************************************************************************)
\* How often a sequence holds a value.
Count(seq, e) == Cardinality({i \in 1..Len(seq) : seq[i] = e})

\* The events subscriber k received or is still to receive.
Seen(k) == subscribers[k].observed \o subscribers[k].queue

BuiltPayloadEvent(p) == [kind |-> "BuiltPayload", arg |-> p]

\* The job records of a job vector.
JobSet(jobs) == {jobs[i] : i \in 1..Len(jobs)}

\* The step polled a job, and the poll it made.
PolledNow == Len(pass'.polled) = Len(pass.polled) + 1
LastPoll == pass'.polled[Len(pass'.polled)]

(***************************************************************************)
(* C12: a subscriber that subscribed before a Resolve command was handled  *)
(* is given Events::BuiltPayload(P) exactly once when the future of that   *)
(* Resolve has completed with Ok(P), and not at all when it has completed  *)
(* with an error or has not completed.                                     *)
(***************************************************************************)
BuiltPayloadOnce ==
    \A k \in 1..Len(subscribers) :
        /\ \A d \in done :
              d.p > subscribers[k].since =>
                  Count(Seen(k), BuiltPayloadEvent(d.p)) = IF d.ok THEN 1 ELSE 0
        /\ \A p \in futures : Count(Seen(k), BuiltPayloadEvent(p)) = 0

\* Start J, subscribe, resolve: the future completed with Ok and the
\* subscriber holds exactly the BuiltPayload event of it.
WitnessSubscriberGotBuiltPayload ==
    /\ Len(subscribers) = 1
    /\ subscribers[1].since = 2
    /\ done = {[p |-> 3, ok |-> TRUE]}
    /\ Seen(1) = <<BuiltPayloadEvent(3)>>

(***************************************************************************)
(* C13: a BuildNewPayload command whose payload id is in the active set    *)
(* is answered Ok(that id) once; new_payload_job is not called, the job    *)
(* vector, the receivers' events, initiated_jobs and failed_jobs keep      *)
(* their values and no Events::Attributes is sent.                         *)
(***************************************************************************)
DuplicateBuildChangesNothing ==
    [][(/\ Handled
        /\ last'.cmd.kind = "BuildNewPayload"
        /\ PayloadIdOf(last'.cmd.arg) \in ActiveIds) =>
            /\ last'.reply = <<"Ok", PayloadIdOf(last'.cmd.arg)>>
            /\ replies'[last'.tx] = 1
            /\ ~last'.asked
            /\ payload_jobs' = payload_jobs
            /\ last'.sent = <<>>
            /\ subscribers' = subscribers
            /\ published' = published
            /\ metrics' = metrics]_vars

\* Attributes 2, which yield the id of the active job built from attributes
\* 1, were answered Ok(1); the subscriber holds the one Attributes event.
WitnessDuplicateBuild ==
    /\ last.cmd = [kind |-> "BuildNewPayload", arg |-> 2]
    /\ last.active = {1}
    /\ last.reply = <<"Ok", 1>>
    /\ payload_jobs = <<[id |-> 1, attr |-> 1]>>
    /\ Len(subscribers) = 1
    /\ subscribers[1].queue = <<[kind |-> "Attributes", arg |-> 1]>>

(***************************************************************************)
(* C14: when new_payload_job returns an error for a BuildNewPayload        *)
(* command, the reply is Err, failed_jobs grows by one, the job vector,    *)
(* initiated_jobs and the receivers' events keep their values, no event    *)
(* is sent and `new_job` keeps its value.                                  *)
(***************************************************************************)
GeneratorFailure ==
    [][(Handled /\ last'.asked /\ ~last'.created) =>
            /\ last'.cmd.kind = "BuildNewPayload"
            /\ last'.reply = <<"Err">>
            /\ replies'[last'.tx] = 1
            /\ metrics'.failed_jobs = metrics.failed_jobs + 1
            /\ metrics'.initiated_jobs = metrics.initiated_jobs
            /\ payload_jobs' = payload_jobs
            /\ last'.sent = <<>>
            /\ subscribers' = subscribers
            /\ published' = published
            /\ new_job' = new_job]_vars

\* The generator failed for the command handled last while another job was
\* active and a subscriber listened.
WitnessGeneratorFailed ==
    /\ last.asked
    /\ ~last.created
    /\ last.reply = <<"Err">>
    /\ last.failed1 = last.failed0 + 1
    /\ Len(payload_jobs) = 1
    /\ Len(subscribers) = 1

(***************************************************************************)
(* C15: when the poll of an active job returns Ready(Err), that job record *)
(* is out of the job vector after the iteration, failed_jobs has grown by  *)
(* one and the other job records are all still in the vector.              *)
(***************************************************************************)
JobPollFailure ==
    [][(PolledNow /\ LastPoll.outcome = "ReadyErr") =>
            /\ LastPoll.job \in JobSet(payload_jobs)
            /\ JobSet(payload_jobs') = JobSet(payload_jobs) \ {LastPoll.job}
            /\ Len(payload_jobs') = Len(payload_jobs) - 1
            /\ metrics'.failed_jobs = metrics.failed_jobs + 1
            /\ metrics'.initiated_jobs = metrics.initiated_jobs]_vars

\* In a pass over two jobs the second poll returned Ready(Err) after the
\* first returned Pending: one job is left.
WitnessJobFailedOtherStays ==
    /\ svc_pc = "jobs"
    /\ Len(pass.start) = 2
    /\ Len(pass.polled) = 2
    /\ pass.polled[1].outcome = "Pending"
    /\ pass.polled[2].outcome = "ReadyErr"
    /\ payload_jobs = <<pass.polled[1].job>>
    /\ metrics.failed_jobs = 1

(***************************************************************************)
(* C16: a BestPayload, PayloadAttributes or Resolve command for a payload  *)
(* id that is not in the active set is answered None, once, and leaves the *)
(* job vector as it was (and hands out no future).                         *)
(***************************************************************************)
AbsentIdNone ==
    [][(/\ Handled
        /\ last'.cmd.kind \in {"BestPayload", "PayloadAttributes", "Resolve"}
        /\ last'.cmd.arg \notin ActiveIds) =>
            /\ last'.reply = <<"None">>
            /\ replies'[last'.tx] = 1
            /\ payload_jobs' = payload_jobs
            /\ futures' = futures]_vars

\* A Resolve for id 2 was answered None while the job of id 1 was active.
WitnessResolveAbsentId ==
    /\ last.cmd = [kind |-> "Resolve", arg |-> 2]
    /\ last.active = {1}
    /\ last.reply = <<"None">>
    /\ ActiveIds = {1}

(***************************************************************************)
(* C17: in every step, a job record enters the job vector only when an     *)
(* accepted BuildNewPayload is handled (and it is the record of that       *)
(* command); a record leaves it only when its poll returns Ready(Ok) or    *)
(* Ready(Err) or when a Resolve on its id gets keep_alive = No; a Resolve  *)
(* with keep_alive = Yes, BestPayload, PayloadAttributes, Subscribe and a  *)
(* poll that returns Pending leave the set of records as it was.           *)
(***************************************************************************)
JobLifecycle ==
    [][LET before == JobSet(payload_jobs)
           after == JobSet(payload_jobs')
       IN  /\ after \ before # {} =>
                 /\ Handled
                 /\ last'.cmd.kind = "BuildNewPayload"
                 /\ last'.created
                 /\ after \ before = {[id |-> PayloadIdOf(last'.cmd.arg),
                                       attr |-> last'.cmd.arg]}
                 /\ before \ after = {}
           /\ before \ after # {} =>
                 \/ /\ PolledNow
                    /\ LastPoll.outcome \in {"ReadyOk", "ReadyErr"}
                    /\ before \ after = {LastPoll.job}
                 \/ /\ Handled
                    /\ last'.cmd.kind = "Resolve"
                    /\ last'.keep = "No"
                    /\ before \ after = {r \in before : r.id = last'.cmd.arg}
           /\ (/\ Handled
               /\ \/ last'.cmd.kind \in {"BestPayload", "PayloadAttributes", "Subscribe"}
                  \/ last'.cmd.kind = "Resolve" /\ last'.keep = "Yes") => after = before
           /\ (PolledNow /\ LastPoll.outcome = "Pending") => after = before]_vars

\* A Resolve on an active job got keep_alive = Yes and the job is still active.
WitnessResolveKeptJob ==
    /\ last.cmd.kind = "Resolve"
    /\ last.keep = "Yes"
    /\ last.cmd.arg \in last.active
    /\ last.cmd.arg \in ActiveIds
    /\ last.tx \in futures

(***************************************************************************)
(* C19: when a job pass ends, every job that was in the job vector when    *)
(* the pass started was polled exactly once in it, nothing else was        *)
(* polled, and the job vector holds exactly the jobs whose poll returned   *)
(* Pending, each once.                                                     *)
(***************************************************************************)
JobPassPollsOnce ==
    [][(svc_pc = "jobs" /\ svc_pc' = "commands") =>
            /\ Len(pass.polled) = Len(pass.start)
            /\ \A i \in 1..Len(pass.start) :
                  Cardinality({j \in 1..Len(pass.polled) :
                                 pass.polled[j].job = pass.start[i]}) = 1
            /\ \A j \in 1..Len(pass.polled) : pass.polled[j].job \in JobSet(pass.start)
            /\ JobSet(payload_jobs') =
                  {pass.polled[j].job : j \in {n \in 1..Len(pass.polled) :
                                                 pass.polled[n].outcome = "Pending"}}
            /\ Len(payload_jobs') = Cardinality(JobSet(payload_jobs'))]_vars

\* A pass over two jobs is at its end: the job polled first returned
\* Pending, the other Ready(Ok), and the first one alone is left.
WitnessPassOverTwoJobs ==
    /\ svc_pc = "jobs"
    /\ idx = 0
    /\ Len(pass.start) = 2
    /\ Len(pass.polled) = 2
    /\ pass.polled[1].job = pass.start[2]
    /\ pass.polled[1].outcome = "Pending"
    /\ pass.polled[2].outcome = "ReadyOk"
    /\ payload_jobs = <<pass.start[2]>>

\* The command drain of a pass ends.
DrainEnds == svc_pc = "commands" /\ svc_pc' # "commands"

(***************************************************************************)
(* C20, as stated: a pass that created a job is followed at once by        *)
(* another pass, and when poll returns Pending every job created since     *)
(* has been polled.                                                        *)
(***************************************************************************)
NewbornAlwaysPolled ==
    [][DrainEnds =>
          IF new_job
          THEN svc_pc' = "events"
          ELSE svc_pc' = "pending" /\ newborn = {}]_vars

(***************************************************************************)
(* C20, amended: a pass that created a job is followed at once by another  *)
(* full pass (chain events, jobs, commands), so when poll returns Pending  *)
(* every job that was created since and is still in the active set has     *)
(* been polled at least once; a job that a Resolve with keep_alive = No    *)
(* removed in the command drain that created it is never polled.           *)
(***************************************************************************)
NewbornPolledIfStillActive ==
    [][DrainEnds =>
          IF new_job
          THEN svc_pc' = "events"
          ELSE svc_pc' = "pending" /\ newborn \cap ActiveIds = {}]_vars

\* poll returned Pending after the job which the command handled last had
\* created was polled.
WitnessNewbornWasPolled ==
    /\ svc_pc = "pending"
    /\ last.cmd.kind = "BuildNewPayload"
    /\ last.created
    /\ PayloadIdOf(last.cmd.arg) \in ActiveIds
    /\ newborn = {}
    /\ metrics.initiated_jobs = 1

(***************************************************************************)
(* C18: the payload-event broadcast is lossy and bounded at 20.  While     *)
(* events are published (25 of them) a send is always possible, whatever   *)
(* the subscriber has read; the broadcast holds at most 20 events for the  *)
(* subscriber; and what the subscriber received or is still to receive is  *)
(* in publication order and holds each of the latest 20 events once.       *)
(***************************************************************************)
BroadcastLossyBounded ==
    /\ published < MaxPublished => ENABLED Publish
    /\ \A k \in 1..Len(subscribers) :
          /\ Len(subscribers[k].queue) <= 20
          /\ \A i, j \in 1..Len(Seen(k)) : i < j => Seen(k)[i].arg < Seen(k)[j].arg
          /\ \A n \in 1..published :
                n > published - 20 => Count(Seen(k), BuiltPayloadEvent(n)) = 1

\* 25 events were published before the subscriber read any; it then received
\* the events 6 to 25, 20 of them, and nothing is left for it.
WitnessSlowSubscriber ==
    /\ published = 25
    /\ Len(subscribers) = 1
    /\ subscribers[1].queue = <<>>
    /\ Len(subscribers[1].observed) = 20
    /\ subscribers[1].observed[1] = BuiltPayloadEvent(6)
    /\ subscribers[1].observed[20] = BuiltPayloadEvent(25)

PassOrder ==
    /\ svc_pc = "pending" => svc_pc' = "events"
    /\ svc_pc = "events" => svc_pc' = "jobs" /\ chain_events = <<>>
    /\ svc_pc = "jobs" => /\ svc_pc' = "commands"
                          /\ idx = 0
                          /\ Len(pass.polled) = Len(pass.start)
    /\ svc_pc = "commands" =>
          /\ command_rx = <<>>
          /\ svc_pc' = IF new_job THEN "events" ELSE "pending"

NodeDataSinks == {i \in EthSinks : sinks[i].kind = "GetNodeData"}

NodeDataTaken ==
    /\ incoming # <<>>
    /\ Head(incoming).kind = "GetNodeData"
    /\ incoming' = Tail(incoming)

CommandEffect ==
    LET cmd == last'.cmd
        id == IF cmd.kind = "BuildNewPayload" THEN PayloadIdOf(cmd.arg) ELSE cmd.arg
    IN  /\ cmd.kind = "BuildNewPayload" /\ id \in ActiveIds =>
              /\ payload_jobs' = payload_jobs /\ metrics' = metrics
              /\ last'.reply = <<"Ok", id>>
        /\ cmd.kind = "BuildNewPayload" /\ id \notin ActiveIds =>
              \/ /\ payload_jobs' = Append(payload_jobs, [id |-> id, attr |-> cmd.arg])
                 /\ metrics' = [metrics EXCEPT !.initiated_jobs = @ + 1]
                 /\ new_job'
                 /\ published' = published + 1
                 /\ last'.reply = <<"Ok", id>>
              \/ /\ payload_jobs' = payload_jobs
                 /\ metrics' = [metrics EXCEPT !.failed_jobs = @ + 1]
                 /\ published' = published
                 /\ last'.reply = <<"Err">>
        /\ cmd.kind \in {"BestPayload", "PayloadAttributes", "Subscribe"} =>
              payload_jobs' = payload_jobs /\ metrics' = metrics
        /\ cmd.kind = "Resolve" =>
              /\ metrics' = metrics
              /\ ActiveIds' = IF last'.keep = "No" THEN ActiveIds \ {id} ELSE ActiveIds

RepliesInChannelOrder ==
    /\ [][Handled =>
            /\ command_rx # <<>>
            /\ last'.tx = Head(command_rx).tx
            /\ last'.cmd = [kind |-> Head(command_rx).kind, arg |-> Head(command_rx).arg]
            /\ command_rx' = Tail(command_rx)
            /\ last'.tx = last.tx + 1
            /\ replies' = [replies EXCEPT ![last'.tx] = 1]
            /\ CommandEffect]_vars
    /\ [][replies' # replies /\ Len(replies') = Len(replies) => Handled]_vars
    /\ [](\A t \in 1..Len(replies) : replies[t] = IF t <= last.tx THEN 1 ELSE 0)
    /\ [](\A i \in 1..Len(command_rx) : command_rx[i].tx = last.tx + i)

\* The receiver of the second command's sink was dropped before the reply;
\* the command, a BuildNewPayload, created its job all the same and its sink
\* was sent to once, after the first command's and no other.
WitnessReplyToDroppedReceiver ==
    /\ last.tx = 2
    /\ 2 \in rx_dropped
    /\ last.cmd.kind = "BuildNewPayload"
    /\ last.created
    /\ PayloadIdOf(last.cmd.arg) \in ActiveIds
    /\ replies[1] = 1
    /\ replies[2] = 1
    /\ Len(replies) = 3
    /\ replies[3] = 0

(***************************************************************************)
(* C25: the request handler's poll never returns Ready.  It returns        *)
(* Pending having woken itself when the drain's budget ran out, which      *)
(* takes a handled request, and without waking itself when the stream had  *)
(* nothing ready; it never suspends unwoken over a waiting request.  The   *)
(* requests are taken in arrival order, and every request enqueued is      *)
(* eventually taken and done with.                                         *)
(***************************************************************************)
EthReturnsPending == eth_pc = "polling" /\ eth_pc' \in {"pending", "yielded"}

EthArrivalOrder ==
    /\ \A j \in 1..Len(incoming) :
          incoming[j].response = Len(sinks) - Len(incoming) + j
    /\ \A i \in EthSinks :
          (i < Len(sinks) - Len(incoming) /\ cur.response # i + 1) =>
              (sinks[i].sent # <<>> \/ sinks[i].dropped)

EthDrainsEveryRequest ==
    /\ [](eth_pc \in {"pending", "yielded", "polling", "headers", "bodies", "receipts"})
    /\ [][EthReturnsPending =>
            /\ eth_woken' <=> eth_pc' = "yielded"
            /\ eth_woken' => eth_drained
            /\ ~eth_woken' => incoming = <<>>]_vars
    /\ [](eth_pc \in {"pending", "yielded"} /\ incoming # <<>> => eth_woken)
    /\ [][incoming' # incoming =>
            IF Len(incoming') < Len(incoming)
            THEN incoming' = Tail(incoming) /\ Len(sinks') = Len(sinks)
            ELSE /\ Len(sinks') = Len(sinks) + 1
                 /\ incoming' = Append(incoming, incoming'[Len(incoming')])]_vars
    /\ []EthArrivalOrder
    /\ \A i \in 1..MaxEthRequests :
          (Len(sinks) >= i) ~> (Len(sinks) >= i /\ EnvelopeDone(i))

\* The handler yielded on its budget with a request waiting, was polled again
\* on its own wake-up and is done with all three requests.
WitnessSelfWokenDrain ==
    /\ eth_pc = "yielded"
    /\ eth_woken
    /\ incoming = <<>>
    /\ Len(sinks) = 3
    /\ \A i \in 1..3 : EnvelopeDone(i) /\ (sinks[i].sent # <<>> \/ sinks[i].dropped)

(***************************************************************************)
(* C26: the response to GetBlockBodies, GetReceipts and GetReceipts69 is   *)
(* aligned with a prefix of the requested hash list.  Element j is the     *)
(* body, or the receipt list (with bloom filters for GetReceipts, without  *)
(* for GetReceipts69), of requested hash j, which the store holds and can  *)
(* read.  The response is shorter than the hash list only if the next hash *)
(* is a miss or a storage error, or the response was cut at a cap, and no  *)
(* element follows a cut.  The sink gets one value, an Ok.                 *)
(***************************************************************************)
HashListKinds == {"GetBlockBodies", "GetReceipts", "GetReceipts69"}

ElementOf(kind, hash) ==
    IF kind = "GetBlockBodies"
    THEN hash
    ELSE [block |-> hash, count |-> hash[2] % 3, bloom |-> (kind = "GetReceipts")]

Readable(hash) ==
    /\ hash[2] \notin store.bad
    /\ \/ hash[1] = "canon" /\ hash[2] <= store.tip
       \/ hash[1] = "side" /\ store.side > 0 /\ hash[2] - store.side \in {0, 1}

CutAt(i, n) == n >= 1024 \/ ResponseBytes(i, n) > 2 * 1024 * 1024

PrefixAligned ==
    \A i \in EthSinks :
        sinks[i].kind \in HashListKinds =>
            /\ ~sinks[i].dropped
            /\ Len(sinks[i].sent) <= 1
            /\ EnvelopeDone(i) => Served(i)
            /\ Served(i) =>
                  LET n == Len(Response(i))
                      hashes == sinks[i].request
                  IN  /\ sinks[i].sent[1][1] = "Ok"
                      /\ n <= Len(hashes)
                      /\ \A j \in 1..n :
                            /\ Response(i)[j] = ElementOf(sinks[i].kind, hashes[j])
                            /\ Readable(hashes[j])
                      /\ n < Len(hashes) => ~Readable(hashes[n + 1]) \/ CutAt(i, n)
                      /\ n >= 2 => ~CutAt(i, n - 1)

\* The second of three requested hashes names a block whose lookup fails:
\* the bodies response holds the first body only, although the store holds
\* the third block.
WitnessBodiesEndAtStorageError ==
    /\ store.bad = {7}
    /\ Len(sinks) = 1
    /\ sinks[1].kind = "GetBlockBodies"
    /\ sinks[1].request = <<<<"canon", 1>>, <<"canon", 7>>, <<"canon", 2>>>>
    /\ sinks[1].sent = <<<<"Ok", <<<<"canon", 1>>>>>>>>

(***************************************************************************)
(* C27: rising traversal never wraps around.  For every header number n up *)
(* to the largest 64-bit number and every skip, the iteration neither      *)
(* fails nor continues at a wrapped number: the next reference is          *)
(* n + 1 + skip, and when that does not fit the traversal stops and the    *)
(* request is answered.                                                    *)
(***************************************************************************)
RisingContinues ==
    /\ eth_pc = "headers"
    /\ eth_pc' = "headers"
    /\ cur.request.direction = "Rising"
    /\ loop_i' = loop_i + 1

RisingNeverWraps ==
    /\ [](eth_pc # "panicked")
    /\ [][RisingContinues =>
            /\ loop_block' = <<"Number", number(loop_acc'[Len(loop_acc')]) + 1
                                         + cur.request.skip>>
            /\ loop_block'[2] <= 2^WordBits - 1]_vars
    /\ [](\A i \in EthSinks :
            (ServedHeaders(i) /\ sinks[i].request.direction = "Rising") =>
                \A j \in 1..(Len(Response(i)) - 1) :
                    number(Response(i)[j + 1]) =
                        number(Response(i)[j]) + 1 + sinks[i].request.skip)
    /\ [](\A i \in EthSinks : EnvelopeDone(i) => Served(i))
====
